---- MODULE Spec2Model ----
(***************************************************************************)
(* Model of index.js: the rate-governed pagination harvester.  main() runs *)
(* processAllContributors and then processAllCommits; each walks the pages *)
(* of one collection through fetchGitHubAPI, after checkAndHandleRateLimits *)
(* has looked at the shared rateLimitInfo.                                  *)
(***************************************************************************)
EXTENDS Integers, Sequences, FiniteSets, TLC

(* ---------------------------- bounds ---------------------------------- *)
\* the upstream collection has at most MaxPage pages: a full page is served
\* only for a page number below MaxPage
MaxPage == 2
\* the largest delay, in units of LatencyMs, of the timer of a pause
MaxLatencySteps == 1

(* ------------------------ program constants --------------------------- *)
perPage == 100
RATE_LIMIT_PAUSE_THRESHOLD == 10
BufferMs == 10000
BOT_USER_TO_FILTER == "dependabot[bot]"
\* rateLimitInfo.remaining starts as the JavaScript value Infinity; the
\* headers are parsed from digit strings, so no parsed value is negative
Infinity == -1
\* null / undefined of a string-valued field
NULL == "<null>"
CONTRIBUTORS_CSV_FILE == "contributors.csv"
COMMITS_CSV_FILE == "commits.csv"
Datasets == {"contributors", "commits"}

(* --------------------- environment: clock, server ---------------------- *)
StartMs == 2 * BufferMs
LatencyMs == BufferMs \div 2
Latencies == {k * LatencyMs : k \in 0..MaxLatencySteps}
\* a header is the empty sequence when absent (or the empty string), else
\* the one-element sequence holding the number its digits denote
\* the (x-ratelimit-remaining, x-ratelimit-reset) pairs a response may carry
Headers ==
    {<<<<>>, <<>>>>, <<<<0>>, <<40>>>>, <<<<0>>, <<5>>>>, <<<<10>>, <<40>>>>,
     <<<<>>, <<5>>>>, <<<<0>>, <<>>>>}
Statuses == {200, 403}
PageLens == {0, 2, perPage - 1, perPage}
ContributorPatterns == {"mixed"}
\* "repeat": a later page that serves the first records of the first page
\* again (the listing shifted while it was being paged through)
CommitPatterns == {"mixed", "bots", "nodate", "repeat"}
\* body kinds of a response: a JSON array, or text that JSON.parse rejects
BodyKinds == {"list", "garbage"}

(* ------------------------- upstream records --------------------------- *)
ContributorKinds == <<"user", "anon", "anonNoName", "nologin">>
CommitKinds == <<"linked", "bot", "unlinked", "noauthor">>

Cycle(kinds, n) == kinds[((n - 1) % Len(kinds)) + 1]

RawContributor(kind, n) ==
    [login |-> IF kind = "user" THEN "user" \o ToString(n) ELSE NULL,
     contributions |-> n,
     html_url |-> IF kind = "user" THEN "https://github.com/user" \o ToString(n) ELSE NULL,
     type |-> IF kind \in {"anon", "anonNoName"} THEN "Anonymous" ELSE "User",
     name |-> IF kind = "anon" THEN "Doe, Jane " \o ToString(n) ELSE NULL,
     email |-> IF kind \in {"anon", "anonNoName"} THEN "anon" \o ToString(n) \o "@example.org" ELSE NULL]

\* author: the linked platform account (only its login is read), or NULL;
\* commitAuthor: the sequence holding commit.author when it is present
RawCommit(kind, n) ==
    [sha |-> "sha" \o ToString(n),
     author |-> CASE kind = "linked" -> "user" \o ToString(n)
                  [] kind = "nodate" -> "user" \o ToString(n)
                  [] kind = "bot" -> BOT_USER_TO_FILTER
                  [] OTHER -> NULL,
     commitAuthor |-> CASE kind = "noauthor" -> <<>>
                        [] kind = "nodate" -> <<[name |-> "J. Smith", email |-> "js@example.org", date |-> NULL]>>
                        [] kind = "unlinked" -> <<[name |-> "J. Smith", email |-> "js@example.org",
                                                   date |-> "2024-01-01T02:00:00+02:00"]>>
                        [] OTHER -> <<[name |-> "N" \o ToString(n), email |-> "n@example.org",
                                       date |-> "2024-01-01T00:00:00Z"]>>,
     message |-> IF n % 2 = 0 THEN <<"subject " \o ToString(n), "", "body">>
                 ELSE <<"subject " \o ToString(n)>>]

\* the records the server holds at position i of a page
ContributorsBody(page, len) ==
    [i \in 1..len |-> RawContributor(Cycle(ContributorKinds, i), (page - 1) * perPage + i)]

CommitsBody(pattern, page, len) ==
    [i \in 1..len |->
        RawCommit(CASE pattern = "bots" -> "bot"
                    [] pattern = "nodate" /\ i = 2 -> "nodate"
                    [] OTHER -> Cycle(CommitKinds, i),
                  IF pattern = "repeat" THEN i ELSE (page - 1) * perPage + i)]

Body(ds, pattern, page, len) ==
    IF ds = "contributors" THEN ContributorsBody(page, len) ELSE CommitsBody(pattern, page, len)

Patterns(ds) == IF ds = "contributors" THEN ContributorPatterns ELSE CommitPatterns

(* ------------------------------ state --------------------------------- *)
VARIABLES
    ds,                   \* the harvest main() is running: a member of Datasets
    pc,                   \* the position of the single thread of control
    rateLimitInfo,        \* the global [remaining, resetTimestamp]
    now,                  \* Date.now(), in milliseconds
    wakeAt,               \* when the timer of sleep(waitTime) is due
    page,                 \* the running harvester's local page
    allContributors,      \* raw contributor records, in page order
    allCommitsData,       \* normalized commit records, in page order
    filteredCommitsCount, \* the exclusion tally of processAllCommits
    res,                  \* the response whose body is being received
    files,                \* the output files: file name -> lines written
    \* history, read by the properties only
    reqCount,             \* requests issued per dataset
    observed,             \* raw records of the pages fetchGitHubAPI resolved with, per dataset
    exit,                 \* how each harvest left its loop
    exported,             \* what each harvest's export step did
    lastCheck,            \* what the check before the outstanding request read
    lastRequest,          \* the outstanding request: dataset, page, time of issue
    pagesSeen             \* the pages the running harvester was served: pattern, length

vars == <<ds, pc, rateLimitInfo, now, wakeAt, page, allContributors, allCommitsData,
          filteredCommitsCount, res, files, reqCount, observed, exit, exported,
          lastCheck, lastRequest, pagesSeen>>

hist == <<reqCount, observed, exit, exported, lastCheck, lastRequest>>

\* res: status and body of the response, its two rate limit headers, and
\* (history) the quota state the response callback found
NoRes == [status |-> 0, kind |-> "none", pattern |-> "none", len |-> 0,
          remaining |-> <<>>, reset |-> <<>>,
          before |-> [remaining |-> Infinity, resetTimestamp |-> 0]]
NoCheck == [remaining |-> Infinity, resetTimestamp |-> 0, now |-> 0, paused |-> FALSE]
NoRequest == [ds |-> "none", page |-> 0, at |-> 0]
FileOf(d) == IF d = "contributors" THEN CONTRIBUTORS_CSV_FILE ELSE COMMITS_CSV_FILE

(* ----------------------------- quota ---------------------------------- *)
\* JavaScript a < b for a number or Infinity on the left
LessThan(a, b) == a # Infinity /\ a < b

\* ShouldPause with <= for <
ShouldPauseAtThreshold(info) ==
    info.remaining # Infinity /\ info.remaining <= RATE_LIMIT_PAUSE_THRESHOLD

ShouldPause(info) == LessThan(info.remaining, RATE_LIMIT_PAUSE_THRESHOLD)

\* WaitTime taking the reset header for milliseconds
WaitTimeResetInMs(info, t) == info.resetTimestamp - t + BufferMs

WaitTime(info, t) == info.resetTimestamp * 1000 - t + BufferMs

\* UpdateRateLimit assigning whatever the headers hold: an absent
\* remaining-count makes the tracker forget the value it had
UpdateRateLimitForgets(info, remH, resetH) ==
    [remaining |-> IF remH # <<>> THEN remH[1] ELSE Infinity,
     resetTimestamp |-> IF resetH # <<>> THEN resetH[1] ELSE info.resetTimestamp]

\* the header updates of the response callback: a header updates its field
\* when it is a non-empty string
UpdateRateLimit(info, remH, resetH) ==
    [remaining |-> IF remH # <<>> THEN remH[1] ELSE info.remaining,
     resetTimestamp |-> IF resetH # <<>> THEN resetH[1] ELSE info.resetTimestamp]

Init ==
    /\ ds = "contributors"
    /\ pc = "check"
    /\ rateLimitInfo = [remaining |-> Infinity, resetTimestamp |-> 0]
    /\ now = StartMs
    /\ wakeAt = 0
    /\ page = 1
    /\ allContributors = <<>>
    /\ allCommitsData = <<>>
    /\ filteredCommitsCount = 0
    /\ res = NoRes
    /\ files = [f \in {CONTRIBUTORS_CSV_FILE, COMMITS_CSV_FILE} |-> <<>>]
    /\ reqCount = [d \in Datasets |-> 0]
    /\ observed = [d \in Datasets |-> 0]
    /\ exit = [d \in Datasets |-> "none"]
    /\ exported = [d \in Datasets |-> "none"]
    /\ lastCheck = NoCheck
    /\ lastRequest = NoRequest
    /\ pagesSeen = <<>>

\* checkAndHandleRateLimits up to the await of sleep
checkAndHandleRateLimits ==
    /\ pc = "check"
    /\ UNCHANGED pagesSeen
    /\ LET pause == ShouldPause(rateLimitInfo) /\ WaitTime(rateLimitInfo, now) > 0
       IN /\ pc' = IF pause THEN "sleep" ELSE "request"
          /\ wakeAt' = IF pause THEN now + WaitTime(rateLimitInfo, now) ELSE wakeAt
          /\ lastCheck' = [remaining |-> rateLimitInfo.remaining,
                           resetTimestamp |-> rateLimitInfo.resetTimestamp,
                           now |-> now, paused |-> pause]
    /\ UNCHANGED <<ds, rateLimitInfo, now, page, allContributors, allCommitsData,
                   filteredCommitsCount, res, files, reqCount, observed, exit, exported,
                   lastRequest>>

\* sleepResolved without the assignment of Infinity
sleepResolvedNoReset ==
    /\ pc = "sleep"
    /\ UNCHANGED pagesSeen
    /\ \E late \in Latencies : now' = wakeAt + late
    /\ pc' = "request"
    /\ UNCHANGED <<ds, rateLimitInfo, wakeAt, page, allContributors, allCommitsData,
                   filteredCommitsCount, res, files, hist>>

\* sleepResolved when the pause is cut short and the check is made again:
\* no time has passed and remaining is as low as before
sleepResolvedNoWait ==
    /\ pc = "sleep"
    /\ UNCHANGED pagesSeen
    /\ pc' = "check"
    /\ UNCHANGED <<ds, rateLimitInfo, now, wakeAt, page, allContributors, allCommitsData,
                   filteredCommitsCount, res, files, hist>>

\* the timer fires, never early; remaining is set back to Infinity
sleepResolved ==
    /\ pc = "sleep"
    /\ UNCHANGED pagesSeen
    /\ \E late \in Latencies : now' = wakeAt + late
    /\ rateLimitInfo' = [rateLimitInfo EXCEPT !.remaining = Infinity]
    /\ pc' = "request"
    /\ UNCHANGED <<ds, wakeAt, page, allContributors, allCommitsData,
                   filteredCommitsCount, res, files, hist>>

\* the harvester builds the path of its page and fetchGitHubAPI sends it
sendRequest ==
    /\ pc = "request"
    /\ UNCHANGED pagesSeen
    /\ pc' = "await"
    /\ reqCount' = [reqCount EXCEPT ![ds] = @ + 1]
    /\ lastRequest' = [ds |-> ds, page |-> page, at |-> now]
    /\ UNCHANGED <<ds, rateLimitInfo, now, wakeAt, page, allContributors, allCommitsData,
                   filteredCommitsCount, res, files, observed, exit, exported,
                   lastCheck>>

\* what the server may answer to the request of a page
Responses(d, p) ==
    {r \in [status : Statuses, kind : BodyKinds, pattern : Patterns(d), len : PageLens] :
        /\ (r.kind # "list" \/ r.status # 200) => (r.len = 0 /\ r.pattern = "mixed")
        /\ r.status # 200 => r.kind = "garbage"
        /\ r.len = 0 => r.pattern = "mixed"
        /\ r.len = perPage - 1 => r.pattern = "mixed"
        /\ r.pattern = "repeat" => (p > 1 /\ r.len = 2)
        /\ r.len = perPage => p < MaxPage}

\* onResponse with the header updates made only under a success status
onResponseSuccessOnly ==
    /\ pc = "await"
    /\ UNCHANGED pagesSeen
    /\ \E r \in Responses(ds, page), h \in Headers :
        /\ now' = now + LatencyMs
        /\ rateLimitInfo' = IF r.status >= 200 /\ r.status < 300
                            THEN UpdateRateLimit(rateLimitInfo, h[1], h[2])
                            ELSE rateLimitInfo
        /\ res' = [status |-> r.status, kind |-> r.kind, pattern |-> r.pattern,
                   len |-> r.len, remaining |-> h[1], reset |-> h[2],
                   before |-> rateLimitInfo]
    /\ pc' = "body"
    /\ lastRequest' = NoRequest
    /\ UNCHANGED <<ds, wakeAt, page, allContributors, allCommitsData, filteredCommitsCount,
                   files, reqCount, observed, exit, exported, lastCheck>>

\* the response callback: the headers update rateLimitInfo
onResponse ==
    /\ pc = "await"
    /\ UNCHANGED pagesSeen
    /\ \E r \in Responses(ds, page), h \in Headers :
        /\ now' = now + LatencyMs
        /\ rateLimitInfo' = UpdateRateLimit(rateLimitInfo, h[1], h[2])
        /\ res' = [status |-> r.status, kind |-> r.kind, pattern |-> r.pattern,
                   len |-> r.len, remaining |-> h[1], reset |-> h[2],
                   before |-> rateLimitInfo]
    /\ pc' = "body"
    /\ lastRequest' = NoRequest
    /\ UNCHANGED <<ds, wakeAt, page, allContributors, allCommitsData, filteredCommitsCount,
                   files, reqCount, observed, exit, exported, lastCheck>>

\* onRequestError putting the quota state back to its initial value
onRequestErrorResets ==
    /\ pc = "await"
    /\ UNCHANGED pagesSeen
    /\ now' = now + LatencyMs
    /\ pc' = "end"
    /\ exit' = [exit EXCEPT ![ds] = "transport"]
    /\ rateLimitInfo' = [remaining |-> Infinity, resetTimestamp |-> 0]
    /\ lastCheck' = NoCheck
    /\ lastRequest' = NoRequest
    /\ UNCHANGED <<ds, wakeAt, page, allContributors, allCommitsData,
                   filteredCommitsCount, res, files, reqCount, observed, exported>>

\* req.on("error"): no response; the promise rejects and the harvester's
\* catch takes over
onRequestError ==
    /\ pc = "await"
    /\ UNCHANGED pagesSeen
    /\ now' = now + LatencyMs
    /\ pc' = "end"
    /\ exit' = [exit EXCEPT ![ds] = "transport"]
    /\ lastCheck' = NoCheck
    /\ lastRequest' = NoRequest
    /\ UNCHANGED <<ds, rateLimitInfo, wakeAt, page, allContributors, allCommitsData,
                   filteredCommitsCount, res, files, reqCount, observed, exported>>

Resolves(r) == r.status >= 200 /\ r.status < 300 /\ r.kind # "garbage"

\* onEndRejected when the harvester answers a rejected fetch by asking for
\* the same page again
onEndRejectedRetries ==
    /\ pc = "body"
    /\ UNCHANGED pagesSeen
    /\ ~(res.status >= 200 /\ res.status < 300 /\ res.kind # "garbage")
    /\ pc' = "check"
    /\ res' = NoRes
    /\ exit' = [exit EXCEPT ![ds] =
                    IF res.status >= 200 /\ res.status < 300 THEN "decode" ELSE "api"]
    /\ lastCheck' = NoCheck
    /\ UNCHANGED <<ds, rateLimitInfo, now, wakeAt, page, allContributors, allCommitsData,
                   filteredCommitsCount, files, reqCount, observed, exported, lastRequest>>

\* res.on("end") of a non-2xx status or of a body JSON.parse rejects: the
\* promise rejects with the quota snapshot and the harvester's catch takes over
onEndRejected ==
    /\ pc = "body"
    /\ UNCHANGED pagesSeen
    /\ ~Resolves(res)
    /\ pc' = "end"
    /\ res' = NoRes
    /\ exit' = [exit EXCEPT ![ds] =
                    IF res.status >= 200 /\ res.status < 300 THEN "decode" ELSE "api"]
    /\ lastCheck' = NoCheck
    /\ UNCHANGED <<ds, rateLimitInfo, now, wakeAt, page, allContributors, allCommitsData,
                   filteredCommitsCount, files, reqCount, observed, exported, lastRequest>>

(* ------------------------ folding and export -------------------------- *)
\* IsShortPage with the bound off by one
IsShortPageOffByOne(len) == len < perPage - 1

\* the termination test of processAllContributors on the length of a page
IsShortPage(len) == len < perPage

\* the page value fetchGitHubAPI resolves with
PageOf(d, r, p) == Body(d, r.pattern, p, r.len)

\* fetchGitHubAPI resolves and processAllContributors folds the page
contributorsPageResolved ==
    /\ pc = "body"
    /\ pagesSeen' = Append(pagesSeen, [pattern |-> res.pattern, len |-> res.len])
    /\ ds = "contributors"
    /\ Resolves(res)
    /\ LET contributorsPage == PageOf(ds, res, page)
       IN /\ observed' = [observed EXCEPT ![ds] = @ + Len(contributorsPage)]
          /\ IF Len(contributorsPage) > 0
               THEN /\ allContributors' = allContributors \o contributorsPage
                    /\ IF IsShortPage(Len(contributorsPage))
                         THEN pc' = "export" /\ page' = page
                              /\ exit' = [exit EXCEPT ![ds] = "short"]
                         ELSE pc' = "check" /\ page' = page + 1 /\ exit' = exit
               ELSE /\ allContributors' = allContributors
                    /\ pc' = "export" /\ page' = page
                    /\ exit' = [exit EXCEPT ![ds] = "empty"]
    /\ res' = NoRes
    /\ lastCheck' = NoCheck
    /\ UNCHANGED <<ds, rateLimitInfo, now, wakeAt, allCommitsData, filteredCommitsCount,
                   files, reqCount, exported, lastRequest>>

IsBotCommit(commitData) ==
    commitData.author # NULL /\ commitData.author = BOT_USER_TO_FILTER

\* new Date(s).toISOString() on the date strings the server holds
ToISOString(s) ==
    CASE s = "2024-01-01T00:00:00Z" -> "2024-01-01T00:00:00.000Z"
      [] s = "2024-01-01T02:00:00+02:00" -> "2024-01-01T00:00:00.000Z"

\* new Date(undefined) is an invalid date, on which toISOString throws a RangeError
MapThrows(commitData) ==
    commitData.commitAuthor # <<>> /\ commitData.commitAuthor[1].date = NULL

\* NormalizeCommit stamping each record with the time of the harvest
NormalizeCommitStamped(commitData) ==
    LET hasAuthor == commitData.commitAuthor # <<>>
        author == commitData.commitAuthor[1]
    IN [SHA |-> commitData.sha,
        AuthorLogin |-> IF commitData.author # NULL THEN commitData.author
                        ELSE IF hasAuthor THEN "Git: " \o author.name ELSE "N/A",
        AuthorName |-> IF hasAuthor THEN author.name ELSE "N/A",
        AuthorEmail |-> IF hasAuthor THEN author.email ELSE "N/A",
        Date |-> IF hasAuthor THEN ToString(now) ELSE "N/A",
        Message |-> commitData.message[1]]

NormalizeCommit(commitData) ==
    LET hasAuthor == commitData.commitAuthor # <<>>
        author == commitData.commitAuthor[1]
    IN [SHA |-> commitData.sha,
        AuthorLogin |-> IF commitData.author # NULL THEN commitData.author
                        ELSE IF hasAuthor THEN "Git: " \o author.name ELSE "N/A",
        AuthorName |-> IF hasAuthor THEN author.name ELSE "N/A",
        AuthorEmail |-> IF hasAuthor THEN author.email ELSE "N/A",
        Date |-> IF hasAuthor THEN ToISOString(author.date) ELSE "N/A",
        Message |-> commitData.message[1]]

Map(f(_), s) == [i \in 1..Len(s) |-> f(s[i])]

NotBot(commitData) == ~IsBotCommit(commitData)

\* the map stops at the first record whose conversion throws
AnyThrows(commits) == \E i \in 1..Len(commits) : MapThrows(commits[i])

\* CommitsPageIsLast reading the filtered page
CommitsPageIsLastFiltered(commitsPage, filteredCommitsFromPage) ==
    Len(filteredCommitsFromPage) < perPage

\* the termination test of processAllCommits reads the original page, not
\* the filtered one
CommitsPageIsLast(commitsPage, filteredCommitsFromPage) == Len(commitsPage) < perPage

\* commitsPageResolved appending only the records not accumulated already
commitsPageResolvedDedups ==
    /\ pc = "body"
    /\ pagesSeen' = Append(pagesSeen, [pattern |-> res.pattern, len |-> res.len])
    /\ ds = "commits"
    /\ Resolves(res)
    /\ LET commitsPage == PageOf(ds, res, page)
           filteredCommitsFromPage == SelectSeq(commitsPage, NotBot)
           threw == AnyThrows(filteredCommitsFromPage)
       IN /\ observed' = [observed EXCEPT ![ds] = @ + Len(commitsPage)]
          /\ filteredCommitsCount' =
                 filteredCommitsCount + (Len(commitsPage) - Len(filteredCommitsFromPage))
          /\ IF Len(commitsPage) > 0
               THEN IF threw
                      THEN /\ allCommitsData' = allCommitsData
                           /\ pc' = "end" /\ page' = page
                           /\ exit' = [exit EXCEPT ![ds] = "threw"]
                      ELSE /\ allCommitsData' =
                                  allCommitsData \o
                                      SelectSeq(Map(NormalizeCommit, filteredCommitsFromPage),
                                                LAMBDA c : \A n \in 1..Len(allCommitsData) :
                                                               allCommitsData[n] # c)
                           /\ IF CommitsPageIsLast(commitsPage, filteredCommitsFromPage)
                                THEN pc' = "export" /\ page' = page
                                     /\ exit' = [exit EXCEPT ![ds] = "short"]
                                ELSE pc' = "check" /\ page' = page + 1 /\ exit' = exit
               ELSE /\ allCommitsData' = allCommitsData
                    /\ pc' = "export" /\ page' = page
                    /\ exit' = [exit EXCEPT ![ds] = "empty"]
    /\ res' = NoRes
    /\ lastCheck' = NoCheck
    /\ UNCHANGED <<ds, rateLimitInfo, now, wakeAt, allContributors, files, reqCount,
                   exported, lastRequest>>

\* fetchGitHubAPI resolves and processAllCommits filters, maps and appends the
\* page; an exception of the map is caught by the harvester's catch
commitsPageResolved ==
    /\ pc = "body"
    /\ pagesSeen' = Append(pagesSeen, [pattern |-> res.pattern, len |-> res.len])
    /\ ds = "commits"
    /\ Resolves(res)
    /\ LET commitsPage == PageOf(ds, res, page)
           filteredCommitsFromPage == SelectSeq(commitsPage, NotBot)
           threw == AnyThrows(filteredCommitsFromPage)
       IN /\ observed' = [observed EXCEPT ![ds] = @ + Len(commitsPage)]
          /\ filteredCommitsCount' =
                 filteredCommitsCount + (Len(commitsPage) - Len(filteredCommitsFromPage))
          /\ IF Len(commitsPage) > 0
               THEN IF threw
                      THEN /\ allCommitsData' = allCommitsData
                           /\ pc' = "end" /\ page' = page
                           /\ exit' = [exit EXCEPT ![ds] = "threw"]
                      ELSE /\ allCommitsData' =
                                  allCommitsData \o Map(NormalizeCommit, filteredCommitsFromPage)
                           /\ IF CommitsPageIsLast(commitsPage, filteredCommitsFromPage)
                                THEN pc' = "export" /\ page' = page
                                     /\ exit' = [exit EXCEPT ![ds] = "short"]
                                ELSE pc' = "check" /\ page' = page + 1 /\ exit' = exit
               ELSE /\ allCommitsData' = allCommitsData
                    /\ pc' = "export" /\ page' = page
                    /\ exit' = [exit EXCEPT ![ds] = "empty"]
    /\ res' = NoRes
    /\ lastCheck' = NoCheck
    /\ UNCHANGED <<ds, rateLimitInfo, now, wakeAt, allContributors, files, reqCount,
                   exported, lastRequest>>

\* the rows processAllContributors builds for the CSV
NormalizeContributor(c) ==
    [Login |-> IF c.login # NULL THEN c.login
               ELSE IF c.type = "Anonymous:"
                    THEN "Anonymous (" \o (IF c.name # NULL THEN c.name ELSE "Unknown") \o ")"
                    ELSE "N/A",
     Contributions |-> ToString(c.contributions),
     ProfileURL |-> IF c.html_url # NULL THEN c.html_url ELSE "N/A",
     Type |-> c.type,
     Email |-> IF c.email # NULL THEN c.email ELSE "N/A",
     Name |-> IF c.name # NULL THEN c.name ELSE "N/A"]

\* the model's strings that hold a comma, a quote or a newline: the names of
\* the anonymous contributors (they hold a comma and no quote)
SpecialStrings ==
    UNION {{"Doe, Jane " \o ToString(n), "Anonymous (Doe, Jane " \o ToString(n) \o ")"} :
              n \in 1..(MaxPage * perPage)}

NeedsQuoting(s) == s \in SpecialStrings

escapeCsvValue(value) ==
    IF value = NULL THEN ""
    ELSE IF NeedsQuoting(value) THEN "\"" \o value \o "\"" ELSE value

RECURSIVE Join(_)
Join(cells) ==
    IF Len(cells) = 0 THEN ""
    ELSE IF Len(cells) = 1 THEN cells[1]
    ELSE cells[1] \o "," \o Join(Tail(cells))

\* the lines of the CSV text: the header row, then one line per row
convertToCsv(dataArray, headers) ==
    IF Len(dataArray) = 0 THEN <<>>
    ELSE <<Join(Map(escapeCsvValue, headers))>> \o
         [i \in 1..Len(dataArray) |->
             Join([h \in 1..Len(headers) |-> escapeCsvValue(dataArray[i][headers[h]])])]

ContributorHeaders == <<"Login", "Contributions", "ProfileURL", "Type", "Name", "Email">>
CommitHeaders == <<"SHA", "AuthorLogin", "AuthorName", "AuthorEmail", "Date", "Message">>

ContributorsCsv(all) == convertToCsv(Map(NormalizeContributor, all), ContributorHeaders)
CommitsCsv(all) == convertToCsv(all, CommitHeaders)

\* Export writing whatever was accumulated, an empty dataset included
ExportAlways(d, csvData, count) ==
    /\ pc = "export"
    /\ UNCHANGED pagesSeen
    /\ ds = d
    /\ \E ok \in BOOLEAN :
          /\ files' = IF ok THEN [files EXCEPT ![FileOf(d)] = csvData] ELSE files
          /\ exported' = [exported EXCEPT ![d] = IF ok THEN "written" ELSE "writeFailed"]
    /\ pc' = "end"
    /\ UNCHANGED <<ds, rateLimitInfo, now, wakeAt, page, allContributors, allCommitsData,
                   filteredCommitsCount, res, reqCount, observed, exit, lastCheck,
                   lastRequest>>

\* the export step of a harvester: nothing to write, or writeFile, which
\* succeeds or rejects into the harvester's catch
Export(d, csvData, count) ==
    /\ pc = "export"
    /\ UNCHANGED pagesSeen
    /\ ds = d
    /\ IF count > 0
         THEN \E ok \in BOOLEAN :
                /\ files' = IF ok THEN [files EXCEPT ![FileOf(d)] = csvData] ELSE files
                /\ exported' = [exported EXCEPT ![d] = IF ok THEN "written" ELSE "writeFailed"]
         ELSE /\ files' = files
              /\ exported' = [exported EXCEPT ![d] = "nothing"]
    /\ pc' = "end"
    /\ UNCHANGED <<ds, rateLimitInfo, now, wakeAt, page, allContributors, allCommitsData,
                   filteredCommitsCount, res, reqCount, observed, exit, lastCheck,
                   lastRequest>>

exportContributors ==
    Export("contributors", ContributorsCsv(allContributors), Len(allContributors))

exportCommits ==
    Export("commits", CommitsCsv(allCommitsData), Len(allCommitsData))

\* contributorsReturn when the export of processAllContributors is not
\* awaited: processAllCommits may start while the export is still due
contributorsReturnEarly ==
    /\ pc \in {"export", "end"}
    /\ pagesSeen' = <<>>
    /\ ds = "contributors"
    /\ ds' = "commits"
    /\ pc' = "check"
    /\ page' = 1
    /\ allContributors' = <<>>
    /\ allCommitsData' = <<>>
    /\ filteredCommitsCount' = 0
    /\ UNCHANGED <<rateLimitInfo, now, wakeAt, res, files, hist>>

\* contributorsReturn when the catch of processAllContributors rethrows:
\* the rejection ends main
contributorsReturnRethrow ==
    /\ pc = "end"
    /\ pagesSeen' = <<>>
    /\ ds = "contributors"
    /\ IF exit[ds] \in {"transport", "api", "decode"}
         THEN pc' = "done" /\ ds' = ds
         ELSE pc' = "check" /\ ds' = "commits"
    /\ page' = 1
    /\ allContributors' = <<>>
    /\ allCommitsData' = <<>>
    /\ filteredCommitsCount' = 0
    /\ UNCHANGED <<rateLimitInfo, now, wakeAt, res, files, hist>>

\* processAllContributors returns, its locals are gone, and main calls
\* processAllCommits, whose locals start afresh
contributorsReturn ==
    /\ pc = "end"
    /\ pagesSeen' = <<>>
    /\ ds = "contributors"
    /\ ds' = "commits"
    /\ pc' = "check"
    /\ page' = 1
    /\ allContributors' = <<>>
    /\ allCommitsData' = <<>>
    /\ filteredCommitsCount' = 0
    /\ UNCHANGED <<rateLimitInfo, now, wakeAt, res, files, hist>>

\* processAllCommits returns and main ends
commitsReturn ==
    /\ pc = "end"
    /\ UNCHANGED pagesSeen
    /\ ds = "commits"
    /\ pc' = "done"
    /\ UNCHANGED <<ds, rateLimitInfo, now, wakeAt, page, allContributors, allCommitsData,
                   filteredCommitsCount, res, files, hist>>

Next ==
    \/ checkAndHandleRateLimits
    \/ sleepResolved
    \/ sendRequest
    \/ onResponse
    \/ onRequestError
    \/ onEndRejected
    \/ contributorsPageResolved
    \/ commitsPageResolved
    \/ exportContributors
    \/ exportCommits
    \/ contributorsReturn
    \/ commitsReturn

Spec == Init /\ [][Next]_vars

(* ----------------------------- properties ----------------------------- *)
FetchFailures == {"transport", "api", "decode"}
Accumulated(d) == IF d = "contributors" THEN allContributors ELSE allCommitsData
CsvOf(d) == IF d = "contributors" THEN ContributorsCsv(allContributors)
            ELSE CommitsCsv(allCommitsData)
\* a page of res.len raw records has arrived with a success status and a
\* body that parses
PageArrived == pc = "body" /\ res.status = 200 /\ res.kind = "list"

\* C1 (as claimed): when a harvest has ended on a failed page fetch with
\* records already accumulated, its file has been written with exactly
\* those records.
C1_FailedFetchStillExports ==
    (pc = "end" /\ exit[ds] \in FetchFailures /\ Len(Accumulated(ds)) > 0)
        => (exported[ds] = "written" /\ files[FileOf(ds)] = CsvOf(ds))

\* C2: a step that receives a non-empty page of fewer than perPage raw
\* records leaves the loop of its harvester (to the export step, or to the
\* catch when the conversion of a record threw) without touching the page
\* number, whatever survived the filter; and once a harvester has left its
\* loop, no request is issued for its dataset any more.
C2_ShortPageIsLast ==
    [][/\ (PageArrived /\ res.len > 0 /\ res.len < perPage)
            => /\ pc' \in {"export", "end"}
               /\ page' = page /\ ds' = ds
               /\ reqCount' = reqCount
               /\ pc' = "export" =>
                     Len(Accumulated(ds))' = Len(Accumulated(ds)) + res.len
                         - (filteredCommitsCount' - filteredCommitsCount)
       /\ pc \in {"export", "end", "done"} => reqCount'[ds] = reqCount[ds]]_vars

\* C2 witness: a short page of two bot commits was folded: nothing survived,
\* and the commits harvest is at its export step after one request
C2_Witness ==
    /\ ds = "commits" /\ pc = "export" /\ exit[ds] = "short"
    /\ observed[ds] = 2 /\ filteredCommitsCount = 2 /\ allCommitsData = <<>>
    /\ reqCount[ds] = 1

\* C3 (as claimed): after every successfully fetched page of exactly
\* perPage raw records the harvester goes on to request page + 1.
C3_FullPageFetchesNext ==
    [][(PageArrived /\ res.len = perPage)
          => (pc' = "check" /\ page' = page + 1 /\ ds' = ds)]_vars

\* C4: a transport, API or decode error of the contributors harvest is
\* caught inside processAllContributors (the rejecting step lands on its
\* last line); from there main goes on to processAllCommits, which starts
\* at page 1 with no request issued yet; and when main has ended after such
\* an error, the commits harvest has issued its request.
C4_ContributorsFailureContained ==
    /\ [][/\ (ds = "contributors" /\ exit'[ds] \in FetchFailures /\ exit[ds] = "none")
               => (pc' = "end" /\ ds' = ds)
          /\ (ds = "contributors" /\ pc = "end")
               => (ds' = "commits" /\ pc' = "check" /\ page' = 1
                   /\ reqCount'["commits"] = 0)]_vars
    /\ []((pc = "done" /\ exit["contributors"] \in FetchFailures)
             => (ds = "commits" /\ reqCount["commits"] >= 1))

\* C4 witness: main has ended, the contributors harvest had been aborted by
\* an API error on its second page, and the commits harvest ran to a short page
C4_Witness ==
    /\ pc = "done"
    /\ exit["contributors"] = "api" /\ reqCount["contributors"] = 2
    /\ exit["commits"] = "short" /\ reqCount["commits"] >= 1

Max0(x) == IF x > 0 THEN x ELSE 0

\* C5: while a request is outstanding, the check of its iteration has run;
\* that check paused exactly when the remaining it read was below the
\* threshold and max(0, resetAt*1000 - now + 10000) was positive; and the
\* request was issued no earlier than that many milliseconds after the
\* check, at the time of the check itself when remaining was not below the
\* threshold.
C5_PauseBeforeRequest ==
    pc = "await" =>
        LET below == lastCheck.remaining # Infinity
                     /\ lastCheck.remaining < RATE_LIMIT_PAUSE_THRESHOLD
            duration == IF below
                        THEN Max0(lastCheck.resetTimestamp * 1000 - lastCheck.now + BufferMs)
                        ELSE 0
        IN /\ lastCheck.now > 0
           /\ lastRequest.ds = ds /\ lastRequest.page = page
           /\ lastCheck.paused <=> (below /\ duration > 0)
           /\ lastRequest.at >= lastCheck.now + duration
           /\ ~below => lastRequest.at = lastCheck.now

\* C5 witness: a request is outstanding that was held back by a pause of
\* 30 seconds (remaining 0, reset at 40 s, checked at 25 s)
C5_Witness ==
    /\ pc = "await" /\ lastCheck.paused
    /\ lastCheck.remaining = 0 /\ lastCheck.resetTimestamp = 40
    /\ lastRequest.at >= lastCheck.now + 25000

\* C6: after a pause the tracked remaining is Infinity until the next
\* response; that response overwrites the fields whose headers it carries,
\* so that remaining is the reported value (and stays Infinity only when the
\* response reports none).
C6_PauseResetThenOverwrite ==
    /\ (pc \in {"request", "await"} /\ lastCheck.paused)
          => rateLimitInfo.remaining = Infinity
    /\ (pc = "body" /\ lastCheck.paused)
          => /\ res.before.remaining = Infinity
             /\ rateLimitInfo.remaining =
                    IF res.remaining # <<>> THEN res.remaining[1] ELSE Infinity
             /\ res.reset # <<>> => rateLimitInfo.resetTimestamp = res.reset[1]

\* C6 witness: the response after a pause reported remaining 10, which is
\* now the tracked value
C6_Witness ==
    /\ pc = "body" /\ lastCheck.paused /\ lastCheck.remaining = 0
    /\ res.remaining = <<10>> /\ rateLimitInfo.remaining = 10

\* C7: a response without a remaining-count leaves remaining as it was, a
\* response without a reset time leaves resetTimestamp as it was; and
\* remaining goes from a number back to Infinity only in the step that ends
\* a pause.
C7_AbsentHeadersKeepState ==
    /\ [](pc = "body" =>
            /\ res.remaining = <<>> => rateLimitInfo.remaining = res.before.remaining
            /\ res.reset = <<>> => rateLimitInfo.resetTimestamp = res.before.resetTimestamp)
    /\ [][(rateLimitInfo.remaining # Infinity /\ rateLimitInfo'.remaining = Infinity)
             => pc = "sleep"]_vars

\* C7 witness: a response carried a reset time and no remaining-count, and
\* the tracked remaining is still the number observed earlier
C7_Witness ==
    /\ pc = "body" /\ res.remaining = <<>> /\ res.reset = <<5>>
    /\ res.before.remaining = 10 /\ rateLimitInfo.remaining = 10
    /\ res.before.resetTimestamp = 40 /\ rateLimitInfo.resetTimestamp = 5

\* C8: when the body of a response is awaited, under a success status or an
\* error status, rateLimitInfo already holds the values its headers carry;
\* resolving or rejecting the fetch does not change them, so the next check
\* and the snapshot of the error read the values of the latest response.
C8_QuotaUpdatedBeforeSettling ==
    /\ [](pc = "body" =>
            /\ res.remaining # <<>> => rateLimitInfo.remaining = res.remaining[1]
            /\ res.reset # <<>> => rateLimitInfo.resetTimestamp = res.reset[1])
    /\ [][pc = "body" => rateLimitInfo' = rateLimitInfo]_vars

\* C8 witness: a 403 response reported remaining 0 and reset 40 and the
\* tracker, which held other values, holds them before the fetch rejects
C8_Witness ==
    /\ pc = "body" /\ res.status = 403
    /\ res.remaining = <<0>> /\ res.reset = <<40>>
    /\ res.before.remaining = 10 /\ res.before.resetTimestamp = 5
    /\ rateLimitInfo = [remaining |-> 0, resetTimestamp |-> 40]

HasBotAuthor(commitData) == commitData.author = BOT_USER_TO_FILTER
BotsOnPage == Len(SelectSeq(CommitsBody(res.pattern, page, res.len), HasBotAuthor))

C10_AccumulatorSize ==
    pc = "end" =>
        Len(Accumulated(ds)) =
            observed[ds] - (IF ds = "commits" THEN filteredCommitsCount ELSE 0)

\* C11: a harvest whose loop ended on a short or an empty page with nothing
\* accumulated (first page empty, or every commit filtered out) takes the
\* branch that only reports: no write is attempted and no file exists for
\* it; and the run goes on, the commits harvest issuing its request after a
\* contributors harvest that had nothing to write.
C11_EmptyHarvestWritesNothing ==
    /\ (pc = "end" /\ exit[ds] \in {"short", "empty"} /\ Len(Accumulated(ds)) = 0)
          => (exported[ds] = "nothing" /\ files[FileOf(ds)] = <<>>)
    /\ exported["contributors"] = "nothing"
          => (exit["contributors"] \in {"short", "empty"}
              /\ files[CONTRIBUTORS_CSV_FILE] = <<>>)
    /\ (pc = "done" /\ exported["contributors"] = "nothing")
          => reqCount["commits"] >= 1

\* C11 witness: the commits harvest has ended after a first page of two bot
\* commits: nothing was accumulated, nothing was written
C11_Witness ==
    /\ ds = "commits" /\ pc = "end" /\ exit[ds] = "short"
    /\ filteredCommitsCount = 2 /\ allCommitsData = <<>>
    /\ exported[ds] = "nothing" /\ files[COMMITS_CSV_FILE] = <<>>
    /\ exported["contributors"] = "nothing"

\* C12 (as claimed): every accumulated contributor record without a login
\* is given the Login "Anonymous (<name>)", with "Unknown" for an absent
\* name, when its type is "Anonymous", and "N/A" otherwise.
C12_AnonymousLogin ==
    \A i \in 1..Len(allContributors) :
        LET c == allContributors[i]
        IN c.login = NULL =>
              NormalizeContributor(c).Login =
                  IF c.type = "Anonymous"
                  THEN "Anonymous (" \o (IF c.name # NULL THEN c.name ELSE "Unknown") \o ")"
                  ELSE "N/A"

\* C13 (as claimed): the fold of a commits page never fails on a record
\* without a raw author date, and every accumulated Date is "N/A" or a
\* reformatted timestamp.
C13_DateNeverFailsTheFold ==
    /\ exit["commits"] # "threw"
    /\ \A i \in 1..Len(allCommitsData) :
          allCommitsData[i].Date \in {"N/A", "2024-01-01T00:00:00.000Z"}

\* a step that issues a request for dataset d
Requests(d) == reqCount'[d] = reqCount[d] + 1

\* C14: a request is issued only when none is outstanding and no response
\* is being received; the request of page p comes after p - 1 full pages
\* were received and folded; and the commits harvester issues a request only
\* after the contributors harvester has left its loop and has either done
\* its export step or been aborted by a fetch failure.
C14_OneRequestAtATime ==
    [][\A d \in Datasets : Requests(d) =>
          /\ pc = "request" /\ pc' = "await" /\ ds = d
          /\ lastRequest = NoRequest /\ res = NoRes
          /\ observed[d] = (page - 1) * perPage
          /\ Len(Accumulated(d)) =
                 observed[d] - (IF d = "commits" THEN filteredCommitsCount ELSE 0)
          /\ d = "commits" =>
                /\ exit["contributors"] # "none"
                /\ (exported["contributors"] # "none"
                    \/ exit["contributors"] \in FetchFailures)]_vars

\* C14 witness: the request of commits page 2 is outstanding, after the
\* contributors harvest wrote its file
C14_Witness ==
    /\ pc = "await" /\ ds = "commits" /\ lastRequest.page = 2
    /\ exported["contributors"] = "written" /\ observed["commits"] = perPage

\* C15: the k-th request of a harvest asks for page k, so that the pages
\* are requested in order, each once; and once a harvest has left its loop
\* (failed fetch, empty page, short page, exception) no request is issued
\* for its dataset.
C15_NoRetry ==
    [][\A d \in Datasets :
          /\ Requests(d) => (lastRequest'.ds = d /\ lastRequest'.page = reqCount[d] + 1)
          /\ exit[d] # "none" => reqCount'[d] = reqCount[d]
          /\ reqCount'[d] \in {reqCount[d], reqCount[d] + 1}]_vars

\* C15 witness: a harvest was ended by a failed fetch of its second page,
\* after exactly two requests
C15_Witness ==
    /\ pc = "end" /\ exit[ds] = "decode" /\ reqCount[ds] = 2 /\ page = 2

PcIndex ==
    CASE pc = "check" -> 0 [] pc = "sleep" -> 1 [] pc = "request" -> 2
      [] pc = "await" -> 3 [] pc = "body" -> 4 [] pc = "export" -> 5
      [] pc = "end" -> 6 [] pc = "done" -> 7

\* the progress of main: harvest, then page, then position in the iteration
Progress ==
    (IF ds = "commits" THEN 10 * (MaxPage + 1) ELSE 0) + 10 * page + PcIndex

\* C16: with at most MaxPage pages upstream, main cannot run forever and
\* cannot get stuck: every step moves it strictly forward in the order
\* (harvest, page, position), which is bounded; in every state but the
\* final one a step is possible (the timer of a pause fires, a request is
\* answered or fails, a settled fetch resumes the harvester); the commits
\* harvest runs only after the contributors harvest has left its loop; and
\* at the end both harvests have left theirs, completed or degraded.
\* (The fold of a commits page has no condition beyond a resolved fetch at
\* the harvester's await, so its enabling condition is written out.)
C16_Terminates ==
    /\ [][Progress' > Progress]_vars
    /\ [](Progress <= 20 * (MaxPage + 1))
    /\ [](\/ pc = "done"
          \/ ENABLED (checkAndHandleRateLimits \/ sleepResolved \/ sendRequest)
          \/ ENABLED (onResponse \/ onRequestError)
          \/ ENABLED (onEndRejected \/ contributorsPageResolved)
          \/ (pc = "body" /\ ds = "commits" /\ Resolves(res))
          \/ ENABLED (exportContributors \/ exportCommits)
          \/ ENABLED (contributorsReturn \/ commitsReturn))
    /\ [](ds = "commits" => exit["contributors"] # "none")
    /\ [](pc = "done" => (ds = "commits" /\ exit["commits"] # "none"))

\* C16 witness: main has ended after a pause, the contributors harvest
\* having completed and the commits harvest having degraded on a failed fetch
C16_Witness ==
    /\ pc = "done" /\ wakeAt > 0
    /\ exit["contributors"] = "short" /\ exit["commits"] = "transport"

(* ------------------------------- C17 ---------------------------------- *)
\* the records a harvest draws from one page: the page itself for
\* contributors; for commits the converted non-bot records, or none when
\* the conversion of the page fails
SurvivorsOf(filteredCommitsFromPage) ==
    IF AnyThrows(filteredCommitsFromPage) THEN <<>>
    ELSE Map(NormalizeCommit, filteredCommitsFromPage)
PageRecords(d, seen, p) ==
    IF d = "contributors" THEN ContributorsBody(p, seen.len)
    ELSE SurvivorsOf(SelectSeq(CommitsBody(seen.pattern, p, seen.len), NotBot))
RECURSIVE RecordsOf(_, _, _)
RecordsOf(d, seen, p) ==
    IF p > Len(seen) THEN <<>>
    ELSE PageRecords(d, seen[p], p) \o RecordsOf(d, seen, p + 1)

\* C17: the records a harvest has accumulated, and the file it writes from
\* them, are a function of the contents of the pages it was served alone:
\* two runs served the same pages hold the same records in the same order,
\* whatever quota headers the responses carried, whatever the clock read
\* and whether or not the harvest paused.
C17_RecordsDependOnPagesOnly ==
    /\ Accumulated(ds) = RecordsOf(ds, pagesSeen, 1)
    /\ (pc \in {"end", "done"} /\ exported[ds] = "written") =>
           files[FileOf(ds)] =
               IF ds = "contributors"
               THEN ContributorsCsv(RecordsOf(ds, pagesSeen, 1))
               ELSE CommitsCsv(RecordsOf(ds, pagesSeen, 1))

\* C17 witness: a commits harvest that paused, was served quota headers and
\* holds the records of two pages
C17_Witness ==
    /\ ds = "commits" /\ Len(pagesSeen) = 2 /\ wakeAt > 0
    /\ rateLimitInfo.remaining # Infinity
    /\ Len(allCommitsData) > perPage \div 2

(* ------------------------------- C18 ---------------------------------- *)
IsPrefix(s, t) == Len(s) <= Len(t) /\ SubSeq(t, 1, Len(s)) = s
Folds == pc = "body" /\ Resolves(res)

\* C18: within one harvest the accumulator only grows by appending: every
\* step leaves the records already accumulated where they are; the step
\* that folds a page appends exactly the surviving records of that page, in
\* their order on the page (a record seen before is appended again), and no
\* other step changes the accumulator; so the records of page n precede
\* those of page n+1, as the positions of the contributors show.
C18_AppendOnlyInPageOrder ==
    /\ [][ds' = ds =>
            /\ IsPrefix(Accumulated(ds), Accumulated(ds)')
            /\ Accumulated(ds)' =
                  IF Folds
                  THEN Accumulated(ds) \o
                         PageRecords(ds, [pattern |-> res.pattern, len |-> res.len], page)
                  ELSE Accumulated(ds)]_vars
    /\ [](\A i \in 1..(Len(allContributors) - 1) :
             allContributors[i].contributions < allContributors[i + 1].contributions)

\* C18 witness: the commits harvest has folded two pages, the second of
\* which served a record of the first again, and holds that record twice
C18_Witness ==
    /\ ds = "commits" /\ Len(pagesSeen) = 2 /\ pagesSeen[2].pattern = "repeat"
    /\ Len(allCommitsData) > 1
    /\ allCommitsData[Len(allCommitsData)] = allCommitsData[1]

(* ------------------------------- C19 ---------------------------------- *)
QuotaAllows(info, t) ==
    \/ info.remaining = Infinity
    \/ info.remaining >= RATE_LIMIT_PAUSE_THRESHOLD
    \/ t >= info.resetTimestamp * 1000 + BufferMs

\* C19: at the step that issues a page request, of either harvester, the
\* tracked remaining is Infinity or at least the threshold, or the time is
\* at or past resetTimestamp * 1000 + 10000 ms, and this still holds at the
\* time of issue while the request is outstanding; the step from the
\* contributors harvester to the commits harvester leaves the quota state
\* as the last contributors response left it, so the same holds for the
\* first commits request.
C19_RequestWithinQuota ==
    /\ [][\A d \in Datasets : Requests(d) => QuotaAllows(rateLimitInfo, now)]_vars
    /\ [](pc = "await" => QuotaAllows(rateLimitInfo, lastRequest.at))
    /\ [][ds' # ds => rateLimitInfo' = rateLimitInfo]_vars

\* C19 witness: the first commits request is outstanding, issued without a
\* pause with remaining 0 left by the last contributors response, the
\* reset time plus the buffer having passed
C19_Witness ==
    /\ pc = "await" /\ ds = "commits" /\ reqCount["commits"] = 1
    /\ rateLimitInfo.remaining = 0 /\ ~lastCheck.paused
    /\ lastRequest.at >= rateLimitInfo.resetTimestamp * 1000 + BufferMs

(* ------------------------------- C20 ---------------------------------- *)
\* a step in which the outstanding request fails without a response
TransportFailure == pc = "await" /\ exit'[ds] = "transport"

\* C20: a fetch that fails without a response leaves rateLimitInfo alone:
\* after the failure remaining and resetTimestamp are what they were when
\* the request was issued, which is what the check before the request read
\* (with remaining Infinity if that check paused).
C20_TransportFailureKeepsQuota ==
    [][TransportFailure =>
          /\ rateLimitInfo' = rateLimitInfo
          /\ rateLimitInfo'.resetTimestamp = lastCheck.resetTimestamp
          /\ rateLimitInfo'.remaining =
                 IF lastCheck.paused THEN Infinity ELSE lastCheck.remaining]_vars

\* C20 witness: the request of a second page has failed without a response
\* and the quota state is the one the first response reported
C20_Witness ==
    /\ pc = "end" /\ exit[ds] = "transport" /\ reqCount[ds] = 2
    /\ rateLimitInfo.remaining = 10 /\ rateLimitInfo.resetTimestamp = 40
====
